---- MODULE Spec2Model ----
(***************************************************************************)
(* Model of the two batch pipelines of mr_proc-ppmi:                       *)
(*   tabular/filter_image_descriptions.py  (description classifier)        *)
(*   tabular/generate_manifest.py          (manifest builder)              *)
(*                                                                         *)
(* Text that the code inspects character by character (descriptions,       *)
(* substrings, protocol labels) is a sequence of one-character strings, so *)
(* that lower-casing, substring search and code-point ordering are         *)
(* computed.  Labels the code only compares for equality or looks up in a  *)
(* dict (subjects, visits, groups, sessions, datatypes) are TLA+ strings.  *)
(* A Python Optional is a sequence of length 0 (None) or 1 (the value).    *)
(***************************************************************************)
EXTENDS Integers, Sequences, FiniteSets, TLC

VARIABLES
    df_imaging,        \* classifier: rows of the imaging-availability table
    filters,           \* classifier: FILTERS / EXCLUDE_IN_* configuration
    out_descriptions,  \* classifier: ppmi_imaging_descriptions.json (Optional)
    out_ignored,       \* classifier: ppmi_imaging_ignored.csv (Optional)
    cls,               \* classifier: what the last run() did
    call,              \* classifier: the last direct filter_descriptions call
    inputs,            \* manifest builder: the input files and configuration
    manifest_file,     \* manifest builder: mr_proc_manifest.csv (Optional)
    last,              \* manifest builder: what the last run() did
    prev               \* manifest builder: what the run before it did

vars == <<df_imaging, filters, out_descriptions, out_ignored, cls, call,
          inputs, manifest_file, last, prev>>

classifierVars == <<df_imaging, filters, out_descriptions, out_ignored, cls, call>>
manifestVars == <<inputs, manifest_file, last, prev>>

\* ------------------------------------------------------------------ bounds
MaxRows == 3
MaxCallRows == 3

\* ------------------------------------------------------- Python / pandas
None == <<>>
Some(x) == <<x>>
IsNone(o) == o = <<>>
Get(o) == o[1]

\* a missing cell (NaN) of a text column
NaN == <<"NaN">>

Range(s) == {s[i] : i \in 1..Len(s)}

\* the characters that occur in the modelled texts, in code-point order
Chars == <<" ", "*", "0", "1", "2", "3", "4", "5", "6", "7", "8", "9",
           "A", "B", "C", "D", "E", "F", "G", "H", "I", "J", "K", "L", "M",
           "N", "O", "P", "Q", "R", "S", "T", "U", "V", "W", "X", "Y", "Z",
           "_",
           "a", "b", "c", "d", "e", "f", "g", "h", "i", "j", "k", "l", "m",
           "n", "o", "p", "q", "r", "s", "t", "u", "v", "w", "x", "y", "z">>
UpperChars == SubSeq(Chars, 13, 38)
LowerChars == SubSeq(Chars, 40, 65)

Code == [c \in Range(Chars) |-> CHOOSE i \in 1..Len(Chars) : Chars[i] = c]

\* str.lower()
LowerChar ==
    [c \in Range(Chars) |->
        IF \E i \in 1..Len(UpperChars) : UpperChars[i] = c
        THEN LowerChars[CHOOSE i \in 1..Len(UpperChars) : UpperChars[i] = c]
        ELSE c]
Lower(s) == [i \in 1..Len(s) |-> LowerChar[s[i]]]

\* Python's < on str: lexicographic by code point
RECURSIVE StrLess(_, _)
StrLess(a, b) ==
    IF a = <<>> THEN b # <<>>
    ELSE IF b = <<>> THEN FALSE
    ELSE IF a[1] = b[1] THEN StrLess(Tail(a), Tail(b))
    ELSE Code[a[1]] < Code[b[1]]

\* sub in s
Contains(s, sub) ==
    \E i \in 0..(Len(s) - Len(sub)) : \A j \in 1..Len(sub) : s[i + j] = sub[j]

\* s.str.lower().str.contains('|'.join(subs).lower()) for literal substrings:
\* the joined pattern of an empty list is '', which every string contains
StrContainsAny(s, subs) ==
    \/ subs = <<>>
    \/ \E k \in 1..Len(subs) : Contains(Lower(s), Lower(subs[k]))

\* the same on a column that may hold NaN, with na=False
StrContainsAnyNa(s, subs) == s # NaN /\ StrContainsAny(s, subs)

\* Index.drop_duplicates() / ~Index.duplicated(): keep the first occurrence
RECURSIVE drop_duplicates(_)
drop_duplicates(s) ==
    IF s = <<>> THEN <<>>
    ELSE LET init == drop_duplicates(SubSeq(s, 1, Len(s) - 1))
             x == s[Len(s)]
         IN IF x \in Range(init) THEN init ELSE Append(init, x)

Count(s, x) == Cardinality({i \in 1..Len(s) : s[i] = x})

\* Series.value_counts().index: the distinct values, most frequent first
value_counts(s) ==
    SortSeq(drop_duplicates(s), LAMBDA a, b : Count(s, a) > Count(s, b))

\* sorted(list of str)
sorted(s) == SortSeq(s, StrLess)

IsSorted(s) == \A i \in 1..(Len(s) - 1) : StrLess(s[i], s[i + 1]) \/ s[i] = s[i + 1]
NoDuplicates(s) == \A i, j \in 1..Len(s) : s[i] = s[j] => i = j

\* ------------------------------------------------------------- texts
S_dti_32dir == <<"d", "t", "i", "_", "3", "2", "d", "i", "r">>
S_dti_calibration == <<"d", "t", "i", "_", "c", "a", "l", "i", "b", "r", "a", "t", "i", "o", "n">>
S_t1_mprage == <<"t", "1", "_", "m", "p", "r", "a", "g", "e">>
S_T2_FLAIR == <<"T", "2", "_", "F", "L", "A", "I", "R">>
S_t2_star == <<"t", "2", "_", "s", "t", "a", "r">>
S_rsfMRI == <<"r", "s", "f", "M", "R", "I">>
S_localizer == <<"l", "o", "c", "a", "l", "i", "z", "e", "r">>
S_dti == <<"d", "t", "i">>
S_calibration == <<"c", "a", "l", "i", "b", "r", "a", "t", "i", "o", "n">>
S_t1 == <<"t", "1">>
S_t2 == <<"t", "2">>
S_star == <<"s", "t", "a", "r">>
S_flair == <<"f", "l", "a", "i", "r">>
S_fmri == <<"f", "m", "r", "i">>
S_mprage == <<"m", "p", "r", "a", "g", "e">>
S_2D == <<"2", "D">>
S_3D == <<"3", "D">>
S_3 == <<"3">>
S_2d == <<"2", "d">>
S_T2 == <<"T", "2">>

\* ============================================================ classifier
\* BIDS datatypes and suffixes (imported from tabular.filters)
DATATYPE_ANAT == "anat"
DATATYPE_DWI == "dwi"
DATATYPE_FUNC == "func"
SUFFIX_T1 == "T1w"
SUFFIX_T2 == "T2w"
SUFFIX_T2_STAR == "T2starw"
SUFFIX_FLAIR == "FLAIR"

\* values of the imaging table's "Modality" column (imported from tabular.ppmi_utils)
MODALITY_ANAT == "MRI"
MODALITY_DWI == "DTI"
MODALITY_FUNC == "fMRI"

DATATYPE_MODALITY_MAP ==
    [k \in {DATATYPE_DWI, DATATYPE_FUNC, DATATYPE_ANAT,
            SUFFIX_T1, SUFFIX_T2, SUFFIX_T2_STAR, SUFFIX_FLAIR} |->
        CASE k = DATATYPE_DWI -> MODALITY_DWI
          [] k = DATATYPE_FUNC -> MODALITY_FUNC
          [] OTHER -> MODALITY_ANAT]

\* A keyword dict of filter_descriptions: every keyword is an Optional.
KwFields == {"common_substrings", "reject_substrings", "reject_substrings_exceptions",
             "exclude_in", "exclude_out", "protocol_include", "protocol_exclude"}
NoKw == [f \in KwFields |-> None]

\* f(**a, **b): the keywords of both dicts (the dicts of FILTERS share no key)
MergeKw(a, b) == [f \in KwFields |-> IF IsNone(b[f]) THEN a[f] ELSE b[f]]

\* the table with its index: row i of the file has index i
MakeDf(rows) ==
    [i \in 1..Len(rows) |->
        [idx |-> i, Description |-> rows[i].Description,
         Modality |-> rows[i].Modality, Protocol |-> rows[i].Protocol]]

Column(df, c) == [i \in 1..Len(df) |-> df[i][c]]
Index(df) == {df[i].idx : i \in 1..Len(df)}

\* lines 199-208: the protocol-column filters
protocol_filter(df, kw) ==
    LET df1 == IF IsNone(kw.protocol_include) THEN df
               ELSE SelectSeq(df, LAMBDA r :
                        StrContainsAnyNa(r.Protocol, Get(kw.protocol_include)))
    IN IF IsNone(kw.protocol_exclude) THEN df1
       ELSE SelectSeq(df1, LAMBDA r :
                ~StrContainsAnyNa(r.Protocol, Get(kw.protocol_exclude)))

\* line 211
modality_rows(df, modality) == SelectSeq(df, LAMBDA r : r.Modality = modality)

\* lines 216-217: remove the descriptions listed in exclude_in
remove_exclude_in(descriptions, kw) ==
    IF ~IsNone(kw.exclude_in) /\ Len(Get(kw.exclude_in)) > 0
    THEN SelectSeq(descriptions, LAMBDA d : d \notin Range(Get(kw.exclude_in)))
    ELSE descriptions

\* lines 225-241: reject by substring, keep the exceptions
reject_filter_skipped(descriptions, kw) == descriptions
reject_filter(descriptions, kw) ==
    IF ~IsNone(kw.reject_substrings) /\ Len(Get(kw.reject_substrings)) > 0
    THEN LET descriptions_keep ==
                 IF ~IsNone(kw.reject_substrings_exceptions)
                 THEN SelectSeq(descriptions, LAMBDA d :
                          StrContainsAny(d, Get(kw.reject_substrings_exceptions)))
                 ELSE <<>>
             kept == SelectSeq(descriptions, LAMBDA d :
                          ~StrContainsAny(d, Get(kw.reject_substrings)))
         IN drop_duplicates(kept \o descriptions_keep)
    ELSE descriptions

\* lines 253-260: the rows outside the modality, minus exclude_out
other_modalities(df, df_modality, kw) ==
    LET df_other == SelectSeq(df, LAMBDA r : r.idx \notin Index(df_modality))
    IN IF ~IsNone(kw.exclude_out) /\ Len(Get(kw.exclude_out)) > 0
       THEN SelectSeq(df_other, LAMBDA r : r.Description \notin Range(Get(kw.exclude_out)))
       ELSE df_other

\* lines 278-284: descriptions of other modalities that hold a common substring
new_descriptions(df_other_modalities, descriptions, kw) ==
    value_counts(Column(
        SelectSeq(df_other_modalities, LAMBDA r :
            /\ StrContainsAny(r.Description, Get(kw.common_substrings))
            /\ r.Description \notin Range(descriptions)),
        "Description"))

\* line 295
combine_unsorted(descriptions, descriptions_new) ==
    drop_duplicates(descriptions \o descriptions_new)
combine(descriptions, descriptions_new) ==
    sorted(drop_duplicates(descriptions \o descriptions_new))

\* lines 155-297
filter_descriptions(df0, datatype, kw) ==
    LET modality == DATATYPE_MODALITY_MAP[datatype]
        df == protocol_filter(df0, kw)
        df_modality == modality_rows(df, modality)
        descriptions0 == value_counts(Column(df_modality, "Description"))
        descriptions1 == remove_exclude_in(descriptions0, kw)
        descriptions == reject_filter(descriptions1, kw)
        df_other_modalities == other_modalities(df, df_modality, kw)
        descriptions_new == new_descriptions(df_other_modalities, descriptions, kw)
    IN combine(descriptions, descriptions_new)

\* A JSON value of the classification artifact: a list of descriptions, or a
\* dict (an ordered sequence of key/value pairs, in insertion order).
List(items) == [dict |-> FALSE, items |-> items]
Dict(pairs) == [dict |-> TRUE, items |-> pairs]
Pair(k, v) == [key |-> k, val |-> v]
Keys(d) == [i \in 1..Len(d.items) |-> d.items[i].key]
Lookup(d, k) == d.items[CHOOSE i \in 1..Len(d.items) : d.items[i].key = k].val

\* lines 300-314: every description of the (nested) dict, in iteration order
RECURSIVE get_all_from(_, _, _)
get_all_from(d, i, descriptions) ==
    IF ~d.dict THEN descriptions \o d.items
    ELSE IF i > Len(d.items) THEN descriptions
    ELSE get_all_from(d, i + 1, get_all_from(d.items[i].val, 1, descriptions))
get_all_top_level(descriptions_dict) ==
    get_all_from(Dict(SelectSeq(descriptions_dict.items, LAMBDA p : ~p.val.dict)), 1, <<>>)
get_all_descriptions(descriptions_dict) == get_all_from(descriptions_dict, 1, <<>>)

\* lines 65-122: the targets of run()'s six calls, in the order of the calls
CallOrder == <<DATATYPE_DWI, DATATYPE_FUNC,
               SUFFIX_T1, SUFFIX_T2, SUFFIX_T2_STAR, SUFFIX_FLAIR>>

\* lines 89, 99, 109, 119: the exclude_in argument of the call for `target`,
\* given the lists the earlier calls returned (done[i] for CallOrder[i])
exclude_in_of(cfg, target, done) ==
    CASE target = SUFFIX_T1 -> Some(cfg.EXCLUDE_IN_ANAT_T1)
      [] target = SUFFIX_T2 -> Some(cfg.EXCLUDE_IN_ANAT \o done[3])
      [] target = SUFFIX_T2_STAR -> Some(cfg.EXCLUDE_IN_ANAT \o done[3] \o done[4])
      [] target = SUFFIX_FLAIR -> Some(cfg.EXCLUDE_IN_ANAT \o done[3] \o done[4])
      [] OTHER -> cfg.FILTERS[target].exclude_in

\* lines 67-71, 86-92, ...: the keywords of the call for `target`
kw_of(cfg, target, done) ==
    IF target \in {DATATYPE_DWI, DATATYPE_FUNC}
    THEN cfg.FILTERS[target]
    ELSE [MergeKw(cfg.FILTERS[DATATYPE_ANAT], cfg.FILTERS[target])
             EXCEPT !.exclude_in = exclude_in_of(cfg, target, done)]

\* lines 63-122: the calls from the i-th on; done holds the earlier results
RECURSIVE classify_from(_, _, _, _)
classify_from(df, cfg, i, done) ==
    IF i > Len(CallOrder) THEN done
    ELSE classify_from(df, cfg, i + 1,
            Append(done, filter_descriptions(df, CallOrder[i],
                                             kw_of(cfg, CallOrder[i], done))))

\* lines 63-122: the six classification calls of run(), in order.
\* calls[i] is the i-th call's target and exclude_in; descriptions is the dict.
run_classification(df, cfg) ==
    LET done == classify_from(df, cfg, 1, <<>>)
    IN [descriptions |->
            Dict(<<Pair(DATATYPE_DWI, List(done[1])),
                   Pair(DATATYPE_FUNC, List(done[2])),
                   Pair(DATATYPE_ANAT,
                        Dict(<<Pair(SUFFIX_T1, List(done[3])),
                               Pair(SUFFIX_T2, List(done[4])),
                               Pair(SUFFIX_T2_STAR, List(done[5])),
                               Pair(SUFFIX_FLAIR, List(done[6]))>>))>>),
        calls |-> [i \in 1..Len(CallOrder) |->
                      [datatype |-> CallOrder[i],
                       exclude_in |-> exclude_in_of(cfg, CallOrder[i], done)]]]

\* Series.sort_values() of a text column
sort_values(s) == SortSeq(s, StrLess)

\* lines 147-150: the descriptions of the table that are in no classified list
ignored_descriptions(df, descriptions_all) ==
    sort_values(drop_duplicates(Column(
        SelectSeq(df, LAMBDA r : r.Description \notin Range(descriptions_all)),
        "Description")))

NoRun == [outcome |-> "none", overwrite |-> FALSE, descriptions |-> Dict(<<>>),
          descriptions_all |-> <<>>, calls |-> <<>>, ignored |-> <<>>,
          wrote |-> <<>>]

\* lines 136-139: `if fpath.exists() and not overwrite` for both output paths
exists_first_only(descriptions_file, ignored_file) == ~IsNone(descriptions_file)
exists(descriptions_file, ignored_file) ==
    ~IsNone(descriptions_file) \/ ~IsNone(ignored_file)

\* lines 47-152: run(global_config_file, overwrite)
ClassifierRun(overwrite) ==
    LET c == run_classification(df_imaging, filters)
        descriptions_all == get_all_descriptions(c.descriptions)
        ignored == ignored_descriptions(df_imaging, descriptions_all)
        done(outcome, wrote, ign) ==
            [outcome |-> outcome, overwrite |-> overwrite,
             descriptions |-> c.descriptions, descriptions_all |-> descriptions_all,
             calls |-> c.calls, ignored |-> ign, wrote |-> wrote]
    \* lines 137-139: both paths are checked before anything is written
    IN /\ IF exists(out_descriptions, out_ignored) /\ ~overwrite
          THEN /\ cls' = done("FileExistsError", <<>>, <<>>)
               /\ UNCHANGED <<out_descriptions, out_ignored>>
          ELSE /\ out_descriptions' = Some(c.descriptions)
               /\ out_ignored' = Some(ignored)
               /\ cls' = done("ok", <<"descriptions", "ignored">>, ignored)
       /\ UNCHANGED <<df_imaging, filters, call>>
       /\ UNCHANGED manifestVars

\* ---------------------------------------------- classifier: input universe
Row(d, m, p) == [Description |-> d, Modality |-> m, Protocol |-> p]

SeqsUpTo(S, n) == UNION {[1..k -> S] : k \in 0..n}

Kw(common, reject, exceptions, exclude_out, pinc, pexc) ==
    [NoKw EXCEPT !.common_substrings = Some(common),
                 !.reject_substrings = reject,
                 !.reject_substrings_exceptions = exceptions,
                 !.exclude_out = exclude_out,
                 !.protocol_include = pinc,
                 !.protocol_exclude = pexc]

FilterKeys == {DATATYPE_DWI, DATATYPE_FUNC, DATATYPE_ANAT,
               SUFFIX_T1, SUFFIX_T2, SUFFIX_T2_STAR, SUFFIX_FLAIR}

\* Rule sets (the content of tabular/filters.py is configuration).
\* ConfigReject: every subtype rejects the substrings of the other subtypes.
ConfigReject ==
    [FILTERS |-> [k \in FilterKeys |->
        CASE k = DATATYPE_DWI -> Kw(<<S_dti>>, Some(<<S_calibration>>), None, None, None, None)
          [] k = DATATYPE_FUNC -> Kw(<<S_fmri>>, None, None, None, None, None)
          [] k = DATATYPE_ANAT -> NoKw
          [] k = SUFFIX_T1 -> Kw(<<S_t1, S_mprage>>, Some(<<S_t2, S_flair>>), None, None, None, None)
          [] k = SUFFIX_T2 -> Kw(<<S_t2>>, Some(<<S_flair, S_star>>), None, None, None, None)
          [] k = SUFFIX_T2_STAR -> Kw(<<S_star>>, None, None, None, None, None)
          [] k = SUFFIX_FLAIR -> Kw(<<S_flair>>, None, None, None, None, None)],
     EXCLUDE_IN_ANAT |-> <<S_localizer>>,
     EXCLUDE_IN_ANAT_T1 |-> <<S_localizer>>]

\* ConfigPlain: common substrings only, overlapping between subtypes.
ConfigPlain ==
    [FILTERS |-> [k \in FilterKeys |->
        CASE k = DATATYPE_DWI -> Kw(<<S_dti>>, None, None, None, None, None)
          [] k = DATATYPE_FUNC -> Kw(<<S_fmri>>, None, None, None, None, None)
          [] k = DATATYPE_ANAT -> NoKw
          [] k = SUFFIX_T1 -> Kw(<<S_t1>>, Some(<<S_t2>>), Some(<<S_flair>>), None, None, None)
          [] k = SUFFIX_T2 -> Kw(<<S_t2>>, None, None, None, None, None)
          [] k = SUFFIX_T2_STAR -> Kw(<<S_t2, S_star>>, None, None, None, None, None)
          [] k = SUFFIX_FLAIR -> Kw(<<S_flair>>, None, None, None, None, None)],
     EXCLUDE_IN_ANAT |-> <<>>,
     EXCLUDE_IN_ANAT_T1 |-> <<>>]

\* ConfigProtocol: the anatomical rules also filter on the protocol column.
ConfigProtocol ==
    [FILTERS |-> [k \in FilterKeys |->
        CASE k = DATATYPE_DWI -> Kw(<<S_dti>>, Some(<<S_calibration>>), None,
                                    Some(<<S_T2_FLAIR>>), None, None)
          [] k = DATATYPE_FUNC -> Kw(<<S_fmri>>, None, None, None, None, None)
          [] k = DATATYPE_ANAT ->
                [NoKw EXCEPT !.protocol_exclude = Some(<<S_3D>>),
                             !.protocol_include = Some(<<S_2d, S_3>>)]
          [] k = SUFFIX_T1 -> Kw(<<S_t1, S_mprage>>, Some(<<S_t2, S_flair>>), None, None, None, None)
          [] k = SUFFIX_T2 -> Kw(<<S_t2>>, Some(<<S_flair, S_star>>), Some(<<S_T2>>), None, None, None)
          [] k = SUFFIX_T2_STAR -> Kw(<<S_star>>, None, None, None, None, None)
          [] k = SUFFIX_FLAIR -> Kw(<<S_flair>>, None, None, Some(<<S_T2_FLAIR>>), None, None)],
     EXCLUDE_IN_ANAT |-> <<S_localizer>>,
     EXCLUDE_IN_ANAT_T1 |-> <<>>]

Configs == {ConfigReject, ConfigPlain, ConfigProtocol}

ClassifierRows ==
    {Row(S_rsfMRI, MODALITY_FUNC, S_2D),
     Row(S_t1_mprage, MODALITY_ANAT, S_3D),
     Row(S_T2_FLAIR, MODALITY_ANAT, S_2D),
     Row(S_T2_FLAIR, MODALITY_DWI, S_2D),
     Row(S_t2_star, MODALITY_ANAT, NaN),
     Row(S_localizer, MODALITY_ANAT, S_2D)}

\* an output file left by an earlier run
StaleDescriptions == Dict(<<>>)
StaleIgnored == <<>>

ManifestIdle ==
    /\ inputs = <<>>
    /\ manifest_file = None
    /\ last = None
    /\ prev = None

InitClassifier ==
    /\ df_imaging \in {MakeDf(rows) : rows \in SeqsUpTo(ClassifierRows, MaxRows)}
    /\ filters \in Configs
    /\ out_descriptions \in {None, Some(StaleDescriptions)}
    /\ out_ignored \in {None, Some(StaleIgnored)}
    /\ cls = NoRun
    /\ call = <<>>
    /\ ManifestIdle

NextClassifier == \E overwrite \in BOOLEAN : ClassifierRun(overwrite)

SpecClassifier == InitClassifier /\ [][NextClassifier]_vars

\* ------------------------------------- one call of filter_descriptions
NoCall == <<>>

\* lines 155-297, called once on the loaded table
FilterCall(datatype, kw) ==
    /\ call = NoCall
    /\ call' = Some([datatype |-> datatype, kw |-> kw,
                     result |-> filter_descriptions(df_imaging, datatype, kw)])
    /\ UNCHANGED <<df_imaging, filters, out_descriptions, out_ignored, cls>>
    /\ UNCHANGED manifestVars

MODALITY_T1 == "T1"

CallRows ==
    {Row(S_dti_32dir, MODALITY_DWI, S_2D),
     Row(S_dti_calibration, MODALITY_DWI, S_3D),
     Row(S_t1_mprage, MODALITY_T1, NaN),
     Row(S_dti_32dir, MODALITY_ANAT, NaN),
     Row(S_T2_FLAIR, MODALITY_ANAT, S_2D)}

CallKws ==
    {[common_substrings |-> Some(common),
      reject_substrings |-> reject,
      reject_substrings_exceptions |-> exceptions,
      exclude_in |-> exclude_in,
      exclude_out |-> exclude_out,
      protocol_include |-> protocol[1],
      protocol_exclude |-> protocol[2]] :
        common \in {<<S_dti>>, <<S_flair, S_t1>>},
        reject \in {None, Some(<<S_calibration>>), Some(<<S_t2, S_3>>)},
        exceptions \in {None, Some(<<S_2d>>)},
        exclude_in \in {None, Some(<<S_dti_32dir>>)},
        exclude_out \in {None, Some(<<S_dti_32dir>>)},
        protocol \in {<<None, None>>, <<Some(<<S_2d>>), None>>, <<None, Some(<<S_3>>)>>}}

CallDatatypes == {DATATYPE_DWI, SUFFIX_T2}

InitFilter ==
    /\ df_imaging \in {MakeDf(rows) : rows \in SeqsUpTo(CallRows, MaxCallRows)}
    /\ filters = ConfigReject
    /\ out_descriptions = None
    /\ out_ignored = None
    /\ cls = NoRun
    /\ call = NoCall
    /\ ManifestIdle

NextFilter == \E datatype \in CallDatatypes, kw \in CallKws : FilterCall(datatype, kw)

SpecFilter == InitFilter /\ [][NextFilter]_vars

\* ====================================================== manifest builder
\* a missing cell (NaN) of a label column
NA == "NaN"

\* line 19
GROUPS_KEEP == {"Parkinson's Disease", "Prodromal", "Healthy Control", "SWEDD", "GenReg Unaff"}

\* lines 40-52
VISIT_IMAGING_MAP ==
    "Baseline" :> "BL" @@ "Month 6" :> "R01" @@ "Month 12" :> "V04"
    @@ "Month 24" :> "V06" @@ "Month 36" :> "V08" @@ "Month 48" :> "V10"
    @@ "Screening" :> "SC" @@ "Premature Withdrawal" :> "PW"
    @@ "Symptomatic Therapy" :> "ST" @@ "Unscheduled Visit 01" :> "U01"
    @@ "Unscheduled Visit 02" :> "U02"

\* lines 53-60
GROUP_IMAGING_MAP ==
    "PD" :> "Parkinson's Disease" @@ "Prodromal" :> "Prodromal"
    @@ "Control" :> "Healthy Control" @@ "Phantom" :> "Phantom"
    @@ "SWEDD" :> "SWEDD" @@ "GenReg Unaff" :> "GenReg Unaff"

\* line 61
DATATYPES == <<DATATYPE_ANAT, DATATYPE_DWI, DATATYPE_FUNC>>

\* lines 66-78
VISIT_SESSION_MAP ==
    "BL" :> "1" @@ "V04" :> "5" @@ "V06" :> "7" @@ "V08" :> "9"
    @@ "V10" :> "11" @@ "PW" :> "30" @@ "ST" :> "21" @@ "U02" :> "91"
    @@ "U01" :> "90" @@ "SC" :> "0" @@ "R01" :> "3"

\* line 92: PATTERN_BIDS_SESSION.format(session)
PATTERN_without_dash(session) == "ses" \o session
PATTERN_BIDS_SESSION(session) == "ses-" \o session

Values(f) == {f[k] : k \in DOMAIN f}

\* The labels that are sorted (subjects, visits, datatypes), in code-point
\* order: Python's < on these strings.
LabelsInOrder == <<"3001", "3002", "BL", "V01", "V04", "anat", "dwi", "func">>
Rank(l) == CHOOSE i \in 1..Len(LabelsInOrder) : LabelsInOrder[i] = l
LabelLess(a, b) == Rank(a) < Rank(b)

\* lines 369-373
validate_visit_session_map(global_config) ==
    Range(global_config.SESSIONS) \ Values(VISIT_SESSION_MAP) = {}

\* lines 126-130: a tabular file without the subject or the visit column
tabular_columns_missing(files) == \E i \in 1..Len(files) : ~files[i].has_columns

\* lines 125-131: pd.concat of the files, then drop_duplicates([PATNO, EVENT_ID])
RECURSIVE concat_files(_)
concat_files(files) ==
    IF files = <<>> THEN <<>> ELSE files[1].rows \o concat_files(Tail(files))
load_tabular(files) == drop_duplicates(concat_files(files))

\* the text of a subtype key, when the loop of lines 141-144 runs over a dict
KeyText ==
    SUFFIX_T1 :> <<"T", "1", "w">> @@ SUFFIX_T2 :> <<"T", "2", "w">>
    @@ SUFFIX_T2_STAR :> <<"T", "2", "s", "t", "a", "r", "w">>
    @@ SUFFIX_FLAIR :> <<"F", "L", "A", "I", "R">>

\* line 141: `for description in descriptions` over a list yields its items,
\* over a dict its keys
iterate(val) ==
    IF val.dict THEN [i \in 1..Len(val.items) |-> KeyText[val.items[i].key]]
    ELSE val.items

\* lines 138-141: the (datatype, description) pairs in the order of the loops
RECURSIVE assignments(_)
assignments(items) ==
    IF items = <<>> THEN <<>>
    ELSE (IF items[1].key \in Range(DATATYPES)
          THEN LET ds == iterate(items[1].val)
               IN [i \in 1..Len(ds) |-> [datatype |-> items[1].key, description |-> ds[i]]]
          ELSE <<>>)
         \o assignments(Tail(items))

\* lines 142-144: one pass of the inner loop body
assign(acc, a) ==
    [map |-> (a.description :> a.datatype) @@ acc.map,
     warned |-> IF a.description \in DOMAIN acc.map
                THEN Append(acc.warned, a.description) ELSE acc.warned]

RECURSIVE reverse_from(_, _)
reverse_from(as, acc) ==
    IF as = <<>> THEN acc ELSE reverse_from(Tail(as), assign(acc, as[1]))

\* lines 136-144: map is description_datatype_map; warned lists the
\* descriptions a "more than one associated datatype" warning was logged for
reverse_mapping(datatype_descriptions_map) ==
    reverse_from(assignments(datatype_descriptions_map.items),
                 [map |-> <<>>, warned |-> <<>>])

\* lines 156-162, 171-177: labels without a mapping
visit_unmapped(imaging) ==
    \E i \in 1..Len(imaging) : imaging[i].Visit \notin DOMAIN VISIT_IMAGING_MAP
group_unmapped(imaging) ==
    \E i \in 1..Len(imaging) : imaging[i].Research_Group \notin DOMAIN GROUP_IMAGING_MAP

\* line 168: Series.map(VISIT_SESSION_MAP)
session_of(visit) ==
    IF visit \in DOMAIN VISIT_SESSION_MAP THEN VISIT_SESSION_MAP[visit] ELSE NA

\* lines 149-177: rename the columns, map visits, sessions and groups
format_imaging(imaging) ==
    [i \in 1..Len(imaging) |->
        [participant_id |-> imaging[i].Subject_ID,
         visit |-> VISIT_IMAGING_MAP[imaging[i].Visit],
         session |-> session_of(VISIT_IMAGING_MAP[imaging[i].Visit]),
         COHORT_DEFINITION |-> GROUP_IMAGING_MAP[imaging[i].Research_Group],
         datatype |-> imaging[i].Description]]

\* line 191: df_tabular.merge(df_group[[subject, group]], on=subject, how='left')
RECURSIVE merge_group(_, _)
merge_group(df_tabular, df_group) ==
    IF df_tabular = <<>> THEN <<>>
    ELSE LET r == df_tabular[1]
             matches == SelectSeq(df_group, LAMBDA g : g.PATNO = r.PATNO)
         IN (IF matches = <<>>
             THEN <<[participant_id |-> r.PATNO, visit |-> r.EVENT_ID,
                     COHORT_DEFINITION |-> NA]>>
             ELSE [j \in 1..Len(matches) |->
                     [participant_id |-> r.PATNO, visit |-> r.EVENT_ID,
                      COHORT_DEFINITION |-> matches[j].COHORT_DEFINITION]])
            \o merge_group(Tail(df_tabular), df_group)

\* lines 206-214: the subject's distinct groups in the imaging table
imaging_groups(df_img, subject) ==
    drop_duplicates(Column(
        SelectSeq(df_img, LAMBDA r : r.participant_id = subject),
        "COHORT_DEFINITION"))

\* lines 192-216: fill a missing group from the imaging table when it is unique
fill_groups_first(df_tabular, df_img) ==
    [i \in 1..Len(df_tabular) |->
        IF df_tabular[i].COHORT_DEFINITION = NA
           /\ Len(imaging_groups(df_img, df_tabular[i].participant_id)) >= 1
        THEN [df_tabular[i] EXCEPT !.COHORT_DEFINITION =
                 imaging_groups(df_img, df_tabular[i].participant_id)[1]]
        ELSE df_tabular[i]]
fill_groups(df_tabular, df_img) ==
    [i \in 1..Len(df_tabular) |->
        IF df_tabular[i].COHORT_DEFINITION = NA
           /\ Len(imaging_groups(df_img, df_tabular[i].participant_id)) = 1
        THEN [df_tabular[i] EXCEPT !.COHORT_DEFINITION =
                 imaging_groups(df_img, df_tabular[i].participant_id)[1]]
        ELSE df_tabular[i]]

\* lines 242, 257: keep the configured sessions, then the groups of GROUPS_KEEP
keep_sessions_all(df_img, sessions) == df_img
keep_sessions(df_img, sessions) ==
    SelectSeq(df_img, LAMBDA r : r.session \in Range(sessions))
keep_groups(df) == SelectSeq(df, LAMBDA r : r.COHORT_DEFINITION \in GROUPS_KEEP)

\* lines 375-384
get_datatype_list(descriptions, description_datatype_map) ==
    LET datatypes == SelectSeq(descriptions,
                               LAMBDA d : d \in DOMAIN description_datatype_map)
    IN SortSeq(drop_duplicates([i \in 1..Len(datatypes) |->
                                   description_datatype_map[datatypes[i]]]),
               LabelLess)

KeyLess(a, b) ==
    \/ LabelLess(a.participant_id, b.participant_id)
    \/ a.participant_id = b.participant_id /\ LabelLess(a.visit, b.visit)

\* lines 265-268: groupby([subject, visit, session]) and aggregate
groupby_datatypes(df_img, description_datatype_map) ==
    LET keys == SortSeq(drop_duplicates(
                    [i \in 1..Len(df_img) |->
                        [participant_id |-> df_img[i].participant_id,
                         visit |-> df_img[i].visit,
                         session |-> df_img[i].session]]), KeyLess)
    IN [k \in 1..Len(keys) |->
          [participant_id |-> keys[k].participant_id,
           visit |-> keys[k].visit,
           session |-> keys[k].session,
           datatype |-> get_datatype_list(
               Column(SelectSeq(df_img, LAMBDA r :
                          /\ r.participant_id = keys[k].participant_id
                          /\ r.visit = keys[k].visit
                          /\ r.session = keys[k].session), "datatype"),
               description_datatype_map)]]

SameKey(a, b) == a.participant_id = b.participant_id /\ a.visit = b.visit

\* lines 293-295: outer merge on (subject, visit); the datatype of a row
\* without imaging match is missing (None)
RECURSIVE merge_left(_, _)
merge_left(df_tabular, df_img) ==
    IF df_tabular = <<>> THEN <<>>
    ELSE LET r == df_tabular[1]
             matches == SelectSeq(df_img, LAMBDA g : SameKey(g, r))
         IN (IF matches = <<>>
             THEN <<[participant_id |-> r.participant_id, visit |-> r.visit,
                     session |-> NA, datatype |-> None, merge |-> "left_only"]>>
             ELSE [j \in 1..Len(matches) |->
                     [participant_id |-> r.participant_id, visit |-> r.visit,
                      session |-> matches[j].session,
                      datatype |-> Some(matches[j].datatype), merge |-> "both"]])
            \o merge_left(Tail(df_tabular), df_img)

merge_outer(df_tabular, df_img) ==
    LET right_only == SelectSeq(df_img, LAMBDA g :
                          \A i \in 1..Len(df_tabular) : ~SameKey(g, df_tabular[i]))
    IN merge_left(df_tabular, df_img)
       \o [j \in 1..Len(right_only) |->
             [participant_id |-> right_only[j].participant_id,
              visit |-> right_only[j].visit,
              session |-> right_only[j].session,
              datatype |-> Some(right_only[j].datatype), merge |-> "right_only"]]

\* lines 306-308: a missing datatype list becomes []
datatype_or_empty(datatype) == IF IsNone(datatype) THEN <<>> ELSE Get(datatype)

\* lines 311: the sessions of the merged table, before the prefix is added
sessions_without_bids_prefix(df_merged) ==
    drop_duplicates(SelectSeq(Column(df_merged, "session"), LAMBDA x : x # NA))

\* lines 312-314
bids_session(session) == IF session = NA THEN NA ELSE PATTERN_BIDS_SESSION(session)

\* lines 306-323, 330: the manifest's columns, sorted by subject and visit
manifest_of(df_merged) ==
    SortSeq([i \in 1..Len(df_merged) |->
                [participant_id |-> df_merged[i].participant_id,
                 participant_dicom_dir |-> NA,
                 visit |-> df_merged[i].visit,
                 session |-> bids_session(df_merged[i].session),
                 datatype |-> datatype_or_empty(df_merged[i].datatype),
                 bids_id |-> NA]],
            KeyLess)

\* ---- the manifest file: DataFrame.to_csv and pd.read_csv
\* a missing cell is written as the empty string
cell(x) == IF x = NA THEN "" ELSE x

RECURSIVE join(_, _)
join(tokens, sep) ==
    IF Len(tokens) <= 1 THEN tokens
    ELSE <<tokens[1], sep>> \o join(Tail(tokens), sep)

\* str(list): the list literal a datatype cell is written as, token by token
repr(datatype) ==
    <<"[">> \o join([i \in 1..Len(datatype) |-> "'" \o datatype[i] \o "'"], ", ")
    \o <<"]">>

\* lines 330, 363: df_manifest.to_csv(index=False, header=True)
to_csv(df_manifest) ==
    [i \in 1..Len(df_manifest) |->
        [participant_id |-> cell(df_manifest[i].participant_id),
         participant_dicom_dir |-> cell(df_manifest[i].participant_dicom_dir),
         visit |-> cell(df_manifest[i].visit),
         session |-> cell(df_manifest[i].session),
         datatype |-> repr(df_manifest[i].datatype),
         bids_id |-> cell(df_manifest[i].bids_id)]]

\* an empty cell is read as missing
parse_cell(x) == IF x = "" THEN NA ELSE x

\* the string a quoted token stands for
unquote(token) == CHOOSE d \in Range(DATATYPES) : "'" \o d \o "'" = token

\* line 354: converters={datatype: pd.eval} evaluates the list literal
pd_eval_skipped(text) == text
pd_eval(text) ==
    LET inner == SubSeq(text, 2, Len(text) - 1)
        items == SelectSeq(inner, LAMBDA token : token # ", ")
    IN [i \in 1..Len(items) |-> unquote(items[i])]

\* lines 351-355: pd.read_csv(fpath_manifest, dtype={subject: str},
\* converters={datatype: pd.eval})
read_csv(file) ==
    [i \in 1..Len(file) |->
        [participant_id |-> parse_cell(file[i].participant_id),
         participant_dicom_dir |-> parse_cell(file[i].participant_dicom_dir),
         visit |-> parse_cell(file[i].visit),
         session |-> parse_cell(file[i].session),
         datatype |-> pd_eval(file[i].datatype),
         bids_id |-> parse_cell(file[i].bids_id)]]

\* line 356: DataFrame.equals (missing cells in the same place are equal)
equals(df_manifest, df_manifest_old) == df_manifest = df_manifest_old

\* workflow.catalog.read_manifest(filename, session): the rows of the
\* snapshot for the session, each with its BIDS identifier; no row when the
\* catalog fails for the session
read_manifest(snapshot, session, catalog_errors) ==
    IF session \in catalog_errors THEN <<>>
    ELSE LET df == read_csv(snapshot)
             index == SelectSeq([i \in 1..Len(df) |-> i], LAMBDA i :
                          df[i].session = PATTERN_BIDS_SESSION(session))
         IN [k \in 1..Len(index) |->
               [index |-> index[k],
                bids_id |-> "sub-" \o df[index[k]].participant_id]]

\* line 342: df_manifest.loc[rows.index, bids_id] = rows[bids_id]
set_bids_id(df_manifest, rows) ==
    [i \in 1..Len(df_manifest) |->
        IF \E k \in 1..Len(rows) : rows[k].index = i
        THEN [df_manifest[i] EXCEPT !.bids_id =
                 rows[CHOOSE k \in 1..Len(rows) : rows[k].index = i].bids_id]
        ELSE df_manifest[i]]

\* lines 333-342: None when the lookup of a session returns no row
RECURSIVE populate_bids_id(_, _, _, _)
populate_bids_id(df_manifest, snapshot, sessions, catalog_errors) ==
    IF sessions = <<>> THEN Some(df_manifest)
    ELSE IF read_manifest(snapshot, sessions[1], catalog_errors) = <<>> THEN None
    ELSE populate_bids_id(
             set_bids_id(df_manifest,
                         read_manifest(snapshot, sessions[1], catalog_errors)),
             snapshot, Tail(sessions), catalog_errors)

\* lines 325-331: the snapshot goes to a NamedTemporaryFile; the destination
\* keeps its content
snapshot_to_destination(file, snapshot) == Some(snapshot)
snapshot_to_tempfile(file, snapshot) == file

\* ---- the run
Result(outcome, file, wrote, df_manifest, sessions, rev) ==
    [outcome |-> outcome, file |-> file, wrote |-> wrote,
     df_manifest |-> df_manifest, sessions |-> sessions,
     warned |-> rev.warned, description_datatype_map |-> rev.map]

NoReverse == [map |-> <<>>, warned |-> <<>>]

\* line 360: `if not overwrite`
refuse_never(overwrite) == FALSE
refuse(overwrite) == ~overwrite

\* lines 349-367
save(df_manifest, sessions, rev, file, overwrite) ==
    IF ~IsNone(file) /\ equals(df_manifest, read_csv(Get(file)))
    THEN Result("unchanged", file, FALSE, Some(df_manifest), sessions, rev)
    ELSE IF ~IsNone(file) /\ refuse(overwrite)
    THEN Result("FileExistsError", file, FALSE, Some(df_manifest), sessions, rev)
    ELSE Result("written", Some(to_csv(df_manifest)), TRUE, Some(df_manifest),
                sessions, rev)

\* lines 336-363: after the catalog lookups
finish(populated, sessions, rev, file, overwrite) ==
    IF IsNone(populated)
    THEN Result("RuntimeError", file, FALSE, None, sessions, rev)
    ELSE save(Get(populated), sessions, rev, file, overwrite)

\* lines 325-342: write the snapshot, look every session up in the catalog
resolve(df_manifest, snapshot, sessions, rev, catalog_errors, file, overwrite) ==
    finish(populate_bids_id(df_manifest, snapshot, sessions, catalog_errors),
           sessions, rev, snapshot_to_tempfile(file, snapshot), overwrite)

\* lines 186-224, 285: the tabular table with its groups, group-filtered
tabular_kept(in, df_img) ==
    keep_groups(fill_groups(merge_group(load_tabular(in.tabular), in.group),
                            df_img))

\* lines 235-268: the imaging table, filtered and aggregated
imaging_kept(df_img, sessions) == keep_groups(keep_sessions(df_img, sessions))

\* lines 186-323
merged(in, df_img, rev) ==
    merge_outer(tabular_kept(in, df_img),
                groupby_datatypes(imaging_kept(df_img, in.global_config.SESSIONS),
                                  rev.map))

snapshot_of(df_manifest, sessions, rev, catalog_errors, file, overwrite) ==
    resolve(df_manifest, to_csv(df_manifest), sessions, rev, catalog_errors,
            file, overwrite)

build(in, df_merged, rev, file, overwrite) ==
    snapshot_of(manifest_of(df_merged), sessions_without_bids_prefix(df_merged),
                rev, in.catalog_errors, file, overwrite)

\* lines 136-367: from the reverse mapping on
from_mapping(in, rev, file, overwrite) ==
    IF visit_unmapped(in.imaging) \/ group_unmapped(in.imaging)
    THEN Result("RuntimeError", file, FALSE, None, <<>>, rev)
    ELSE build(in, merged(in, format_imaging(in.imaging), rev), rev, file,
               overwrite)

\* lines 101-367: generate_manifest.run
run(in, file, overwrite) ==
    IF ~validate_visit_session_map(in.global_config)
    THEN Result("ValueError", file, FALSE, None, <<>>, NoReverse)
    ELSE IF tabular_columns_missing(in.tabular)
    THEN Result("RuntimeError", file, FALSE, None, <<>>, NoReverse)
    ELSE from_mapping(in, reverse_mapping(in.descriptions), file, overwrite)

\* ---- the log
WARN_MISSING_SESSION_MAPPING == "Missing mapping(s) in VISIT_SESSION_MAP"
WARN_NO_GROUP == "Some subjects in tabular data do not belong to any research group"
WARN_NOT_FILLED == "Did not successfully fill in missing group values using imaging data"
WARN_SESSIONS == "Did not encounter all sessions listed in global_config"
WARN_GROUPS == "Did not encounter all groups listed in GROUPS_KEEP"
WARN_DATATYPES == "Did not encounter all datatypes in datatype_descriptions_map"
WARN_NO_TABULAR == "Some imaging entries have no corresponding tabular information"

Warn(condition, message) == IF condition THEN {message} ELSE {}
GroupMissing(df) == \E i \in 1..Len(df) : df[i].COHORT_DEFINITION = NA

\* lines 165-167, 192-200, 219-222: warnings while formatting
warnings_format(df_img, df_tabular, df_filled) ==
    Warn(\E i \in 1..Len(df_img) : df_img[i].visit \notin DOMAIN VISIT_SESSION_MAP,
         WARN_MISSING_SESSION_MAPPING)
    \cup Warn(GroupMissing(df_tabular), WARN_NO_GROUP)
    \cup Warn(GroupMissing(df_filled), WARN_NOT_FILLED)

\* lines 235-237, 251-253: sessions and groups that were expected
warnings_filter(df_img, sessions) ==
    Warn(Range(sessions) \ Range(Column(df_img, "session")) # {}, WARN_SESSIONS)
    \cup Warn(GROUPS_KEEP \ Range(Column(keep_sessions(df_img, sessions),
                                         "COHORT_DEFINITION")) # {}, WARN_GROUPS)

\* lines 270-273, 297-303
warnings_merge(df_aggregated, df_merged) ==
    Warn(\E d \in Range(DATATYPES) : \A i \in 1..Len(df_aggregated) :
             d \notin Range(df_aggregated[i].datatype), WARN_DATATYPES)
    \cup Warn(\E i \in 1..Len(df_merged) : df_merged[i].merge = "right_only",
              WARN_NO_TABULAR)

\* the tabular table after line 224 and the warnings of lines 146-303
log_from(in, df_img, df_tabular, rev) ==
    [df_tabular |-> Some(fill_groups(df_tabular, df_img)),
     warnings |->
        warnings_format(df_img, df_tabular, fill_groups(df_tabular, df_img))
        \cup warnings_filter(df_img, in.global_config.SESSIONS)
        \cup warnings_merge(
                 groupby_datatypes(imaging_kept(df_img, in.global_config.SESSIONS),
                                   rev.map),
                 merged(in, df_img, rev))]

\* what run() logs besides the collisions of the reversal
log_of(in) ==
    IF \/ ~validate_visit_session_map(in.global_config)
       \/ tabular_columns_missing(in.tabular)
       \/ visit_unmapped(in.imaging)
       \/ group_unmapped(in.imaging)
    THEN [df_tabular |-> None, warnings |-> {}]
    ELSE log_from(in, format_imaging(in.imaging),
                  merge_group(load_tabular(in.tabular), in.group),
                  reverse_mapping(in.descriptions))

\* one invocation of the script
ManifestRun(overwrite) ==
    \E result \in {run(inputs, manifest_file, overwrite)} :
        /\ last' = Some([result |-> result, file_before |-> manifest_file,
                         overwrite |-> overwrite, log |-> log_of(inputs)])
        /\ prev' = last
        /\ manifest_file' = result.file
        /\ UNCHANGED <<inputs, classifierVars>>

\* ---- the inputs of the model
MaxImagingRows == 2

ImagingRow(s, v, g, d) ==
    [Subject_ID |-> s, Visit |-> v, Research_Group |-> g, Description |-> d]
ImagingRows ==
    {ImagingRow("3001", "Baseline", "PD", S_dti_32dir),
     ImagingRow("3001", "Baseline", "PD", S_rsfMRI),
     ImagingRow("3001", "Month 12", "PD", S_t1_mprage),
     ImagingRow("3002", "Month 12", "Control", S_rsfMRI),
     ImagingRow("3001", "Baseline", "Phantom", S_t1_mprage),
     ImagingRow("3001", "Month 60", "PD", S_dti_32dir),
     ImagingRow("3002", "Baseline", "Alien", S_rsfMRI)}

TabularRow(s, v) == [PATNO |-> s, EVENT_ID |-> v]
TabularFile(rows) == [has_columns |-> TRUE, rows |-> rows]
TabularFileWithoutColumns == [has_columns |-> FALSE, rows |-> <<>>]
TabularInputs ==
    {<<TabularFile(<<TabularRow("3001", "V04"), TabularRow("3001", "BL"),
                     TabularRow("3002", "V01")>>)>>,
     <<TabularFile(<<TabularRow("3001", "BL"), TabularRow("3002", "BL")>>),
       TabularFile(<<TabularRow("3001", "BL"), TabularRow("3002", "V04")>>)>>,
     <<TabularFile(<<TabularRow("3001", "BL")>>), TabularFileWithoutColumns>>}

GroupRow(s, g) == [PATNO |-> s, COHORT_DEFINITION |-> g]
GroupInputs ==
    {<<>>,
     <<GroupRow("3001", "Parkinson's Disease")>>,
     <<GroupRow("3001", "Parkinson's Disease"), GroupRow("3002", "Healthy Control")>>,
     <<GroupRow("3001", "Parkinson's Disease"), GroupRow("3001", "Prodromal")>>,
     <<GroupRow("3001", "Parkinson's Disease"), GroupRow("3001", "Parkinson's Disease")>>,
     <<GroupRow("3001", "Early Imaging"), GroupRow("3002", "Prodromal")>>}

Anat(t1) ==
    Dict(<<Pair(SUFFIX_T1, List(t1)), Pair(SUFFIX_T2, List(<<>>)),
           Pair(SUFFIX_T2_STAR, List(<<>>)), Pair(SUFFIX_FLAIR, List(<<>>))>>)
Descriptions(dwi, func, t1) ==
    Dict(<<Pair(DATATYPE_DWI, List(dwi)), Pair(DATATYPE_FUNC, List(func)),
           Pair(DATATYPE_ANAT, Anat(t1))>>)
DescriptionsPlain == Descriptions(<<S_dti_32dir>>, <<S_rsfMRI>>, <<S_t1_mprage>>)
DescriptionsFlatCollision ==
    Descriptions(<<S_dti_32dir, S_rsfMRI>>, <<S_rsfMRI>>, <<S_t1_mprage>>)
DescriptionsNestedCollision ==
    Descriptions(<<S_dti_32dir, S_t1_mprage>>, <<S_rsfMRI>>, <<S_t1_mprage>>)

Setting(sessions, catalog_errors, descriptions) ==
    [global_config |-> [SESSIONS |-> sessions],
     catalog_errors |-> catalog_errors, descriptions |-> descriptions]
Settings ==
    {Setting(<<"1", "5">>, {}, DescriptionsPlain),
     Setting(<<"1">>, {}, DescriptionsFlatCollision),
     Setting(<<"1", "99">>, {}, DescriptionsPlain),
     Setting(<<"1", "5">>, {"5"}, DescriptionsPlain),
     Setting(<<"1", "5">>, {}, DescriptionsNestedCollision)}

\* a manifest left by an earlier run on other inputs
StaleManifest ==
    <<[participant_id |-> "3001", participant_dicom_dir |-> "", visit |-> "BL",
       session |-> "", datatype |-> <<"[", "]">>, bids_id |-> ""]>>

ClassifierIdle ==
    /\ df_imaging = <<>>
    /\ filters = ConfigPlain
    /\ out_descriptions = None
    /\ out_ignored = None
    /\ cls = NoRun
    /\ call = NoCall

InitManifest ==
    /\ inputs \in {s @@ [imaging |-> i, tabular |-> t, group |-> g] :
                      s \in Settings,
                      i \in SeqsUpTo(ImagingRows, MaxImagingRows),
                      t \in TabularInputs,
                      g \in GroupInputs}
    /\ manifest_file \in {None, Some(StaleManifest)}
    /\ last = None
    /\ prev = None
    /\ ClassifierIdle

NextManifest == \E overwrite \in BOOLEAN : ManifestRun(overwrite)

SpecManifest == InitManifest /\ [][NextManifest]_vars

\* ================================================================ claims
\* the four anatomical subtype lists of the last run
SubtypeList(suffix) == Lookup(Lookup(cls.descriptions, DATATYPE_ANAT), suffix).items
Suffixes == {SUFFIX_T1, SUFFIX_T2, SUFFIX_T2_STAR, SUFFIX_FLAIR}

\* C1: after run() of the classifier the T1, T2, T2-star and FLAIR lists are
\* pairwise disjoint: no description is in two of them.
C1_SubtypesDisjoint ==
    cls.outcome # "none" =>
        \A a, b \in Suffixes :
            a # b => Range(SubtypeList(a)) \cap Range(SubtypeList(b)) = {}

\* C7: the list returned by filter_descriptions is sorted in ascending order
\* and holds no description more than once.
C7_SortedNoDuplicates ==
    call # NoCall =>
        /\ IsSorted(Get(call).result)
        /\ NoDuplicates(Get(call).result)

\* C7 witness: a call returned at least two descriptions, one of them
\* recovered from a row outside the target modality.
C7_Witness ==
    /\ call # NoCall
    /\ Len(Get(call).result) >= 2
    /\ \E i \in 1..Len(df_imaging) :
          /\ df_imaging[i].Modality # DATATYPE_MODALITY_MAP[Get(call).datatype]
          /\ df_imaging[i].Description \in Range(Get(call).result)
          /\ \A j \in 1..Len(df_imaging) :
                df_imaging[j].Description = df_imaging[i].Description
                    => df_imaging[j].Modality = df_imaging[i].Modality

\* the descriptions of the imaging table, and those of the classified lists
AllDescriptions == {df_imaging[i].Description : i \in 1..Len(df_imaging)}
Classified ==
    Range(Lookup(cls.descriptions, DATATYPE_DWI).items)
        \cup Range(Lookup(cls.descriptions, DATATYPE_FUNC).items)
        \cup UNION {Range(SubtypeList(x)) : x \in Suffixes}

\* C8: the ignored-descriptions output is the sorted, duplicate-free list of
\* the table's descriptions that are in no classified list, so a description
\* of the table is in a classified list or in the ignored list, never in both.
C8_IgnoredIsComplement ==
    cls.outcome = "ok" =>
        /\ Range(Get(out_ignored)) = AllDescriptions \ Classified
        /\ IsSorted(Get(out_ignored))
        /\ NoDuplicates(Get(out_ignored))
        /\ \A d \in AllDescriptions :
              (d \in Classified) # (d \in Range(Get(out_ignored)))

\* C8 witness: a run wrote an ignored list of two descriptions while an
\* anatomical subtype list and the dwi list were not empty.
C8_Witness ==
    /\ cls.outcome = "ok"
    /\ Len(Get(out_ignored)) >= 2
    /\ Lookup(cls.descriptions, DATATYPE_DWI).items # <<>>
    /\ \E x \in Suffixes : SubtypeList(x) # <<>>

\* the records and the rule of the spec's example
C9_Records ==
    MakeDf(<<Row(S_dti_32dir, MODALITY_DWI, S_2D),
             Row(S_dti_calibration, MODALITY_DWI, S_3D),
             Row(S_t1_mprage, MODALITY_T1, NaN)>>)
C9_Rule == Kw(<<S_dti>>, Some(<<S_calibration>>), None, None, None, None)
C9_Called ==
    /\ call # NoCall
    /\ df_imaging = C9_Records
    /\ Get(call).datatype = DATATYPE_DWI
    /\ Get(call).kw = C9_Rule

\* C9: the rule {modality DTI, common ["dti"], reject ["calibration"]} on the
\* records (dti_32dir, DTI), (dti_calibration, DTI), (t1_mprage, T1) returns
\* exactly ["dti_32dir"].
C9_Example == C9_Called => Get(call).result = <<S_dti_32dir>>

\* C9 witness: the example call was made.
C9_Witness == C9_Called /\ Len(Get(call).result) = 1

\* ---------------------------------------------------- manifest builder claims
Ran == ~IsNone(last)
Last == Get(last).result
Built == Ran /\ ~IsNone(Last.df_manifest)
Manifest == Get(Last.df_manifest)
Succeeded(r) == r.result.outcome \in {"written", "unchanged"}

KeyOf(r) == <<r.participant_id, r.visit>>
KeysOf(df) == [i \in 1..Len(df) |-> KeyOf(df[i])]
ImagingKept ==
    imaging_kept(format_imaging(inputs.imaging), inputs.global_config.SESSIONS)
TabularKept == tabular_kept(inputs, format_imaging(inputs.imaging))

\* C2: every (subject, visit) pair of the group-filtered tabular data or of
\* the session- and group-filtered imaging data is in exactly one row of the
\* manifest, and a row without matching imaging record has the datatype list
\* [] rather than a missing value.
C2_OneRowPerSubjectVisit ==
    Built =>
        /\ \A key \in Range(KeysOf(TabularKept)) \cup Range(KeysOf(ImagingKept)) :
               Count(KeysOf(Manifest), key) = 1
        /\ \A i \in 1..Len(Manifest) :
               KeyOf(Manifest[i]) \notin Range(KeysOf(ImagingKept))
                   => Manifest[i].datatype = <<>>

Differs == Built /\ ~IsNone(Get(last).file_before)
           /\ read_csv(Get(Get(last).file_before)) # Manifest

\* C4: when a manifest file exists and the manifest just built differs from
\* it, the file is replaced if the overwrite flag is set; without the flag the
\* run ends with FileExistsError and the file keeps its content.
C4_ReplaceOnlyWithOverwrite ==
    Differs =>
        IF Get(last).overwrite
        THEN /\ Last.outcome = "written"
             /\ Last.wrote
             /\ manifest_file = Some(to_csv(Manifest))
        ELSE /\ Last.outcome = "FileExistsError"
             /\ ~Last.wrote
             /\ manifest_file = Get(last).file_before

C4_Witness ==
    /\ ~IsNone(prev)
    /\ Get(prev).result.outcome = "FileExistsError"
    /\ Get(prev).file_before = Some(StaleManifest)
    /\ Differs
    /\ Get(last).overwrite
    /\ manifest_file # Some(StaleManifest)

Fatal == {"ValueError", "RuntimeError"}
CatalogFailed == \E s \in Range(Last.sessions) : s \in inputs.catalog_errors

\* C5: a configured session outside the visit-to-session map, an imaging
\* visit or group label without mapping, a tabular file without the subject
\* or visit column, and a catalog lookup without rows each end the run with
\* an error, and a run that ends with an error leaves the manifest file as it
\* was.
C5_FatalBeforeWrite ==
    Ran =>
        /\ ~validate_visit_session_map(inputs.global_config)
               => Last.outcome = "ValueError"
        /\ (\/ tabular_columns_missing(inputs.tabular)
            \/ visit_unmapped(inputs.imaging)
            \/ group_unmapped(inputs.imaging)
            \/ CatalogFailed) => Last.outcome \in Fatal
        /\ Last.outcome \in Fatal \cup {"FileExistsError"}
               => ~Last.wrote /\ manifest_file = Get(last).file_before

C5_Witness ==
    /\ Ran
    /\ CatalogFailed
    /\ Last.outcome = "RuntimeError"
    /\ Get(last).file_before = Some(StaleManifest)
    /\ manifest_file = Some(StaleManifest)

\* the datatypes a description is listed under, in the mapping's order
ListedUnder(description) ==
    SelectSeq(Keys(inputs.descriptions), LAMBDA datatype :
        /\ datatype \in Range(DATATYPES)
        /\ description \in
               Range(get_all_descriptions(Lookup(inputs.descriptions, datatype))))
Reversed ==
    /\ Ran
    /\ validate_visit_session_map(inputs.global_config)
    /\ ~tabular_columns_missing(inputs.tabular)

\* C6: for a description listed under two datatypes of the classification
\* mapping, the reversal logs a warning and maps the description to the
\* datatype processed last.
C6_CollisionWarnsLastWins ==
    Reversed =>
        \A description \in Range(get_all_descriptions(inputs.descriptions)) :
            Len(ListedUnder(description)) >= 2 =>
                /\ description \in Range(Last.warned)
                /\ description \in DOMAIN Last.description_datatype_map
                /\ Last.description_datatype_map[description]
                       = ListedUnder(description)[Len(ListedUnder(description))]

\* C10: "Month 12" is normalized to "V04", and the manifest row of an imaging
\* record of that visit, when session "5" is configured, has the session
\* "ses-5".
C10_Month12IsSession5 ==
    /\ VISIT_IMAGING_MAP["Month 12"] = "V04"
    /\ Built =>
        /\ \A i \in 1..Len(inputs.imaging) :
               (/\ inputs.imaging[i].Visit = "Month 12"
                /\ "5" \in Range(inputs.global_config.SESSIONS)
                /\ GROUP_IMAGING_MAP[inputs.imaging[i].Research_Group] \in GROUPS_KEEP)
               => \E j \in 1..Len(Manifest) :
                      /\ Manifest[j].participant_id = inputs.imaging[i].Subject_ID
                      /\ Manifest[j].visit = "V04"
                      /\ Manifest[j].session = "ses-5"
        /\ \A j \in 1..Len(Manifest) :
               Manifest[j].visit = "V04" => Manifest[j].session \in {"ses-5", NA}

C10_Witness ==
    /\ Built
    /\ \E i \in 1..Len(inputs.imaging) : inputs.imaging[i].Visit = "Month 12"
    /\ \E j \in 1..Len(Manifest) :
           /\ Manifest[j].visit = "V04"
           /\ Manifest[j].session = "ses-5"
           /\ Manifest[j].bids_id # NA

InGroup(r, row) ==
    /\ r.participant_id = row.participant_id
    /\ r.visit = row.visit
    /\ bids_session(r.session) = row.session

\* the datatypes that list a description of a retained imaging row of the
\* manifest row's (subject, visit, session), in sorted order
ListedDatatypes(row) ==
    SelectSeq(DATATYPES, LAMBDA d :
        \E i \in 1..Len(ImagingKept) :
            /\ InGroup(ImagingKept[i], row)
            /\ d \in Range(ListedUnder(ImagingKept[i].datatype)))

\* C11: the datatype list of every (subject, visit, session) group of
\* retained imaging rows is the sorted, duplicate-free set of the datatypes
\* that list a description of the group, the anatomical descriptions being
\* those of the nested subtype lists; unlisted descriptions add nothing.
C11_DatatypesOfGroup ==
    Built =>
        /\ \A i \in 1..Len(ImagingKept) :
               \E j \in 1..Len(Manifest) : InGroup(ImagingKept[i], Manifest[j])
        /\ \A j \in 1..Len(Manifest) :
               Manifest[j].session # NA
                   => Manifest[j].datatype = ListedDatatypes(Manifest[j])

\* ------------------------------------------------ classifier claims, continued
SubtypeCalls == SubSeq(cls.calls, 3, 6)

\* C12: run() classifies the subtypes in the order T1, T2, T2-star, FLAIR,
\* and the exclusion list of every call after the first holds every
\* description assigned to every earlier subtype.
C12_ExclusionChain ==
    cls.outcome # "none" =>
        /\ Column(SubtypeCalls, "datatype")
               = <<SUFFIX_T1, SUFFIX_T2, SUFFIX_T2_STAR, SUFFIX_FLAIR>>
        /\ \A i \in 2..4 : \A j \in 1..(i - 1) :
               /\ ~IsNone(SubtypeCalls[i].exclude_in)
               /\ Range(SubtypeList(SubtypeCalls[j].datatype))
                      \subseteq Range(Get(SubtypeCalls[i].exclude_in))

Called == call # NoCall
CallKw == Get(call).kw
Returned == Range(Get(call).result)

\* the descriptions of the rows of the call's target modality (rows the
\* protocol filters leave in the table)
TargetDescriptions ==
    {r.Description : r \in Range(modality_rows(protocol_filter(df_imaging, CallKw),
                                               DATATYPE_MODALITY_MAP[Get(call).datatype]))}

\* a keyword list that is given and holds a substring of the description
HasSubstringOf(description, substrings) ==
    /\ ~IsNone(substrings)
    /\ \E k \in 1..Len(Get(substrings)) :
           Contains(Lower(description), Lower(Get(substrings)[k]))

\* C13: with a reject list, a description of the target modality that holds
\* a reject substring is not returned unless it holds an exception substring;
\* one that holds an exception substring and is not in exclude_in is returned.
C13_RejectUnlessException ==
    (Called /\ ~IsNone(CallKw.reject_substrings)) =>
        \A d \in TargetDescriptions :
            /\ (/\ HasSubstringOf(d, CallKw.reject_substrings)
                /\ ~HasSubstringOf(d, CallKw.reject_substrings_exceptions))
                   => d \notin Returned
            /\ (/\ HasSubstringOf(d, CallKw.reject_substrings_exceptions)
                /\ (IsNone(CallKw.exclude_in) \/ d \notin Range(Get(CallKw.exclude_in))))
                   => d \in Returned

\* C14: the returned list holds no description of the call's exclude_in list.
C14_ExcludeInAbsent ==
    (Called /\ ~IsNone(CallKw.exclude_in)) =>
        Range(Get(CallKw.exclude_in)) \cap Returned = {}

\* ------------------------------------------ manifest builder claims, continued
Log == Get(last).log
Formatted == Ran /\ ~IsNone(Log.df_tabular)
Filled == Get(Log.df_tabular)
InGroupFile(subject) ==
    \E i \in 1..Len(inputs.group) : inputs.group[i].PATNO = subject
CanonicalGroups(subject) ==
    {GROUP_IMAGING_MAP[r.Research_Group] :
        r \in {x \in Range(inputs.imaging) : x.Subject_ID = subject}}
Continues == Last.outcome \in Fatal => CatalogFailed

\* C15: a tabular row of a subject without group in the group file gets the
\* subject's group of the imaging data exactly when the imaging rows of the
\* subject carry one distinct canonical group; otherwise the group stays
\* missing, a warning is logged and the run goes on.
C15_GroupFilledWhenUnique ==
    Formatted =>
        /\ \A f \in 1..Len(inputs.tabular) : \A k \in 1..Len(inputs.tabular[f].rows) :
               \E i \in 1..Len(Filled) :
                   /\ Filled[i].participant_id = inputs.tabular[f].rows[k].PATNO
                   /\ Filled[i].visit = inputs.tabular[f].rows[k].EVENT_ID
        /\ \A i \in 1..Len(Filled) :
               ~InGroupFile(Filled[i].participant_id) =>
                   IF Cardinality(CanonicalGroups(Filled[i].participant_id)) = 1
                   THEN Filled[i].COHORT_DEFINITION
                            \in CanonicalGroups(Filled[i].participant_id)
                   ELSE /\ Filled[i].COHORT_DEFINITION = NA
                        /\ {WARN_NO_GROUP, WARN_NOT_FILLED} \subseteq Log.warnings
                        /\ Continues

C15_Witness ==
    /\ Formatted
    /\ Last.outcome = "written"
    /\ \E i \in 1..Len(Filled) :
           /\ ~InGroupFile(Filled[i].participant_id)
           /\ Filled[i].COHORT_DEFINITION \in GROUPS_KEEP
    /\ \E i \in 1..Len(Filled) :
           /\ ~InGroupFile(Filled[i].participant_id)
           /\ Filled[i].COHORT_DEFINITION = NA

SessionCode(r) == session_of(VISIT_IMAGING_MAP[r.Visit])
Retained(r) ==
    /\ SessionCode(r) \in Range(inputs.global_config.SESSIONS)
    /\ GROUP_IMAGING_MAP[r.Research_Group] \in GROUPS_KEEP
Feeds(r, row) ==
    /\ Retained(r)
    /\ r.Subject_ID = row.participant_id
    /\ VISIT_IMAGING_MAP[r.Visit] = row.visit
    /\ "ses-" \o SessionCode(r) = row.session

\* C16: every manifest row with a session has a session ses-<s> with s
\* configured and comes from imaging rows of configured sessions and kept
\* groups only, its datatypes included; expected sessions or groups that are
\* absent from the data give a warning and no error.
C16_OnlyRetainedRowsContribute ==
    /\ Built =>
           \A j \in 1..Len(Manifest) :
               Manifest[j].session # NA =>
                   /\ \E s \in Range(inputs.global_config.SESSIONS) :
                          Manifest[j].session = "ses-" \o s
                   /\ \E r \in Range(inputs.imaging) : Feeds(r, Manifest[j])
                   /\ \A d \in Range(Manifest[j].datatype) :
                          \E r \in Range(inputs.imaging) :
                              /\ Feeds(r, Manifest[j])
                              /\ d \in Range(ListedUnder(r.Description))
    /\ Formatted =>
           /\ Range(inputs.global_config.SESSIONS)
                  \ {SessionCode(r) : r \in Range(inputs.imaging)} # {}
                  => WARN_SESSIONS \in Log.warnings
           /\ GROUPS_KEEP
                  \ {GROUP_IMAGING_MAP[r.Research_Group] : r \in Range(inputs.imaging)} # {}
                  => WARN_GROUPS \in Log.warnings
           /\ Continues

C16_Witness ==
    /\ Built
    /\ Last.outcome = "written"
    /\ WARN_SESSIONS \in Log.warnings
    /\ \E r \in Range(inputs.imaging) : ~Retained(r)
    /\ \E j \in 1..Len(Manifest) :
           /\ Manifest[j].session # NA
           /\ Manifest[j].datatype # <<>>

\* ------------------------------------------------ classifier claims, continued
\* C17: a run of the classifier without the overwrite flag that finds either
\* output file ends with FileExistsError and leaves both files as they were,
\* neither created nor modified.
C17_NoWriteWhenOutputExists ==
    [][((~IsNone(out_descriptions) \/ ~IsNone(out_ignored)) /\ ~cls'.overwrite)
           => /\ cls'.outcome = "FileExistsError"
              /\ cls'.wrote = <<>>
              /\ out_descriptions' = out_descriptions
              /\ out_ignored' = out_ignored]_vars

C17_Witness ==
    /\ cls.outcome = "FileExistsError"
    /\ ~cls.overwrite
    /\ out_descriptions = None
    /\ out_ignored = Some(StaleIgnored)
    /\ cls.descriptions_all # <<>>

====
